---- MODULE Spec2Model ----
(***************************************************************************)
(* A model of src/render/shadow.rs of bevy_infinite_grid: the grid shadow  *)
(* pass.  One frame of the render world is a run of the systems that       *)
(* register_shadow adds (prepare_grid_shadow_views, apply_deferred,        *)
(* prepare_grid_shadow_bind_groups, prepare_grid_shadow_view_bind_group,   *)
(* queue_grid_shadows) followed by GridShadowPassNode::update and ::run.   *)
(***************************************************************************)
EXTENDS Integers, Sequences, FiniteSets, TLC

(***************************************************************************)
(* Single-precision arithmetic.  A positive f32 is [m, e] with value       *)
(* m * 2^e and 2^23 <= m < 2^24 (24 significant bits); zero is m = 0.      *)
(* Every operation rounds to nearest, ties to even, as IEEE 754 does.      *)
(* Only the operations of lines 309-311 are modelled: u32 -> f32, f32 / f32,*)
(* f32 * f32 and f32 -> u32.  All intermediate integers stay below 2^31.   *)
(***************************************************************************)
RECURSIVE Pow2(_)
Pow2(n) == IF n = 0 THEN 1 ELSE 2 * Pow2(n - 1)

F32Bits == 24

F32Zero == [m |-> 0, e |-> 0]

\* Number of bits of n > 0 (position of the highest set bit, plus one).
RECURSIVE BitLen(_)
BitLen(n) == IF n = 0 THEN 0 ELSE 1 + BitLen(n \div 2)

\* q, halfway remainder information -> q rounded to nearest, ties to even.
\* cmp is -1, 0 or 1: the discarded part is below, at or above one half.
RoundEven(q, cmp) ==
    IF cmp > 0 \/ (cmp = 0 /\ q % 2 = 1) THEN q + 1 ELSE q

\* A mantissa that rounding carried to 2^24 is renormalised.
F32Norm(m, e) ==
    IF m = Pow2(F32Bits) THEN [m |-> Pow2(F32Bits - 1), e |-> e + 1]
    ELSE [m |-> m, e |-> e]

\* `n as f32` for an unsigned integer n (lines 309, 311).
U32ToF32(n) ==
    IF n = 0 THEN F32Zero
    ELSE LET len == BitLen(n) IN
         IF len <= F32Bits
         THEN [m |-> n * Pow2(F32Bits - len), e |-> len - F32Bits]
         ELSE LET sh   == len - F32Bits
                  q    == n \div Pow2(sh)
                  rem  == n % Pow2(sh)
                  half == Pow2(sh - 1)
                  cmp  == IF rem > half THEN 1 ELSE IF rem = half THEN 0 ELSE -1
              IN F32Norm(RoundEven(q, cmp), sh)

\* n steps of binary long division of r by d (r < d): <<quotient bits, remainder>>.
RECURSIVE DivBits(_, _, _, _)
DivBits(r, d, n, acc) ==
    IF n = 0 THEN <<acc, r>>
    ELSE IF 2 * r >= d THEN DivBits(2 * r - d, d, n - 1, 2 * acc + 1)
    ELSE DivBits(2 * r, d, n - 1, 2 * acc)

\* a / b for positive f32 a and b (line 309).
F32Div(a, b) ==
    IF a.m = 0 THEN F32Zero
    ELSE LET big == a.m >= b.m
             \* the quotient of the mantissas lies in (1/2, 2)
             n   == IF big THEN F32Bits - 1 ELSE F32Bits
             qr  == DivBits(a.m % b.m, b.m, n, a.m \div b.m)
             q   == qr[1]
             r   == qr[2]
             cmp == IF 2 * r > b.m THEN 1 ELSE IF 2 * r = b.m THEN 0 ELSE -1
         IN F32Norm(RoundEven(q, cmp), a.e - b.e - n)

Limb == Pow2(12)

\* a * b for positive f32 a and b (line 311): the 48-bit product of the
\* mantissas is formed from 12-bit limbs as hi * 2^24 + lo.
F32Mul(a, b) ==
    IF a.m = 0 \/ b.m = 0 THEN F32Zero
    ELSE LET a1  == a.m \div Limb
             a0  == a.m % Limb
             b1  == b.m \div Limb
             b0  == b.m % Limb
             mid == a1 * b0 + a0 * b1
             los == (mid % Limb) * Limb + a0 * b0
             lo  == los % Pow2(24)
             hi  == a1 * b1 + mid \div Limb + los \div Pow2(24)
         IN IF hi >= Pow2(23)
            THEN LET cmp == IF lo > Pow2(23) THEN 1
                            ELSE IF lo = Pow2(23) THEN 0 ELSE -1
                 IN F32Norm(RoundEven(hi, cmp), a.e + b.e + 24)
            ELSE LET q   == 2 * hi + lo \div Pow2(23)
                     rem == lo % Pow2(23)
                     cmp == IF rem > Pow2(22) THEN 1
                            ELSE IF rem = Pow2(22) THEN 0 ELSE -1
                 IN F32Norm(RoundEven(q, cmp), a.e + b.e + 23)

\* `x as u32` for a non-negative f32 (line 311): the fraction is dropped.
\* The model's inputs keep the value below 2^31, so the cast never saturates.
F32ToU32(x) ==
    IF x.m = 0 THEN 0
    ELSE IF x.e >= 0 THEN x.m * Pow2(x.e)
    ELSE IF -x.e >= F32Bits THEN 0
    ELSE x.m \div Pow2(-x.e)

(***************************************************************************)
(* Option values: None is the empty sequence, Some(v) the sequence <<v>>.  *)
(***************************************************************************)
None == <<>>
Some(v) == <<v>>

\* The elements of a finite set of integers in ascending order: the order in
\* which the model iterates an entity query.
RECURSIVE SeqOf(_)
SeqOf(S) ==
    IF S = {} THEN <<>>
    ELSE LET x == CHOOSE y \in S : \A z \in S : y <= z
         IN <<x>> \o SeqOf(S \ {x})

Range(s) == {s[i] : i \in 1..Len(s)}

(***************************************************************************)
(* Bounds of the model.                                                    *)
(***************************************************************************)
NumGrids == 2
NumEntities == 2
MaxDim == 22
MaxFootprint == 4

Grids == 1..NumGrids
Entities == 1..NumEntities
\* One pooled texture per request of a frame is the most a frame can take.
TextureIds == 1..NumGrids

(***************************************************************************)
(* TextureSizer: lines 301-312 of prepare_grid_shadow_views.               *)
(***************************************************************************)
TextureSize(width, height, tmax) ==
    LET comp  == width < height
        min   == IF comp THEN width ELSE height
        max   == IF comp THEN height ELSE width
        ratio == F32Div(U32ToF32(min), U32ToF32(max))
        tmin  == F32ToU32(F32Mul(U32ToF32(tmax), ratio))
    IN IF comp THEN <<tmin, tmax>> ELSE <<tmax, tmin>>

(***************************************************************************)
(* The state of the render world.                                          *)
(***************************************************************************)
VARIABLES
    settings,                  \* RenderSettings.max_texture_size (lines 552-555)
    windows,                   \* ExtractedWindows: Option of the primary window's <<width, height>>
    grids,                     \* per grid entity: Option of its GridFrustumIntersect [width, height]
    visible_entities,          \* per grid entity: its VisibleEntities list
    render_mesh_instances,     \* per entity: Option [shadow_caster, mesh_asset_id]
    render_material_instances, \* per entity: Option of a material asset id
    commands,                  \* deferred inserts not yet applied
    texture_cache,             \* per pooled texture: Option of the descriptor it was taken with this frame
    extracted_view,            \* per grid entity: Option ExtractedView [viewport, area]
    shadow_view,               \* per grid entity: Option GridShadowView (its texture)
    view_offset,               \* per grid entity: whether it has a ViewUniformOffset
    bind_group,                \* per grid entity: Option GridShadowBindGroup (the texture it wraps)
    view_uniforms,             \* whether ViewUniforms has a binding this frame
    shadow_uniforms,           \* whether GridShadowUniforms has a binding this frame
    meta,                      \* GridShadowMeta.view_bind_group (lines 245-248)
    phase,                     \* per grid entity: the items of its RenderPhase<GridShadow>
    pipelines,                 \* SpecializedMeshPipelines<GridShadowPipeline>: key -> Option pipeline id
    node_grids,                \* GridShadowPassNode.grids (line 491)
    passes,                    \* the render passes GridShadowPassNode::run began this frame
    done,                      \* the systems and node methods that ran this frame
    crashed                    \* a panic (an unwrap of None) ended the program

vars == <<settings, windows, grids, visible_entities, render_mesh_instances,
          render_material_instances, commands, texture_cache, extracted_view,
          shadow_view, view_offset, bind_group, view_uniforms, shadow_uniforms,
          meta, phase, pipelines, node_grids, passes, done, crashed>>

\* What the extraction of a frame sets, and what the frame's end clears.
scene == <<windows, grids, visible_entities, render_mesh_instances,
           render_material_instances>>

(***************************************************************************)
(* Assets, as the asset registries resolve them.  A mesh is its primitive  *)
(* topology and the attributes of its vertex layout; a material is its     *)
(* bind-group key.  Mesh 3 and material 2 are not resolved (not loaded).   *)
(* Mesh 2 has no position attribute: specialization fails for it.          *)
(***************************************************************************)
MeshIds == {1, 2, 3, 4}
MaterialIds == {1, 2}

RenderMeshes(id) ==
    CASE id = 1 -> Some([primitive_topology |-> "TriangleList",
                         layout |-> {"POSITION", "NORMAL"}])
      [] id = 2 -> Some([primitive_topology |-> "TriangleList",
                         layout |-> {"NORMAL"}])
      [] id = 4 -> Some([primitive_topology |-> "LineList",
                         layout |-> {"POSITION", "NORMAL"}])
      [] OTHER  -> None

RenderMaterials(id) ==
    CASE id = 1 -> Some([key |-> "opaque"])
      [] OTHER  -> None

\* Every (key, layout) pair a resolved mesh and material can give.
PipelineKeys ==
    {[key    |-> [mesh_key |-> RenderMeshes(m)[1].primitive_topology,
                  bind_group_data |-> RenderMaterials(t)[1].key],
      layout |-> RenderMeshes(m)[1].layout] :
        m \in {i \in MeshIds : RenderMeshes(i) # None},
        t \in {i \in MaterialIds : RenderMaterials(i) # None}}

Systems == {"extract", "prepare_grid_shadow_views", "apply_deferred",
            "prepare_view_uniforms", "prepare_grid_shadow_bind_groups",
            "prepare_grid_shadow_view_bind_group", "flush",
            "queue_grid_shadows", "update", "run"}

\* The render world without entities, and a frame in which nothing ran.
NoGrids == [g \in Grids |-> None]
NoLists == [g \in Grids |-> <<>>]
NoInstances == [e \in Entities |-> None]
NoTextures == [t \in TextureIds |-> None]
NoOffsets == [g \in Grids |-> FALSE]

\* register_shadow (lines 565-616): the resources as init_resource and
\* insert_resource leave them, and the node as GridShadowPassNode::new does.
InitWith(sizes) ==
    /\ settings \in [max_texture_size : sizes]
    /\ windows = None
    /\ grids = NoGrids
    /\ visible_entities = NoLists
    /\ render_mesh_instances = NoInstances
    /\ render_material_instances = NoInstances
    /\ commands = <<>>
    /\ texture_cache = NoTextures
    /\ extracted_view = NoGrids
    /\ shadow_view = NoGrids
    /\ view_offset = NoOffsets
    /\ bind_group = NoGrids
    /\ view_uniforms = FALSE
    /\ shadow_uniforms = FALSE
    /\ phase = NoLists
    /\ passes = <<>>
    /\ done = {}
    /\ meta = [view_bind_group |-> None]
    /\ pipelines = [k \in PipelineKeys |-> None]
    /\ node_grids = <<>>
    /\ crashed = FALSE

(***************************************************************************)
(* Extraction: the start of a frame.  The host and the crate's extraction  *)
(* systems fill the render world: the primary window, the grid entities    *)
(* (each with ExtractedInfiniteGrid, GridFrustumIntersect, VisibleEntities *)
(* and an empty RenderPhase<GridShadow>) and the mesh and material         *)
(* instances.  The sets are the inputs a specification draws from.         *)
(***************************************************************************)
Extract(Windows, Footprints, Visibles, MeshInstances, MaterialInstances) ==
    /\ ~crashed
    /\ done = {}
    /\ windows' \in Windows
    /\ grids' \in [Grids -> Footprints]
    /\ visible_entities' \in [Grids -> Visibles]
    /\ \A g \in Grids : grids'[g] = None => visible_entities'[g] = <<>>
    /\ render_mesh_instances' \in [Entities -> MeshInstances]
    /\ render_material_instances' \in [Entities -> MaterialInstances]
    /\ done' = {"extract"}
    /\ UNCHANGED <<settings, commands, texture_cache, extracted_view, shadow_view,
                   view_offset, bind_group, view_uniforms, shadow_uniforms, meta,
                   phase, pipelines, node_grids, passes, crashed>>

(***************************************************************************)
(* prepare_grid_shadow_views (lines 288-361).                              *)
(***************************************************************************)
\* The descriptor of lines 316-329.
ShadowTextureDescriptor(width, height) ==
    [label |-> "grid_shadow_texture", width |-> width, height |-> height,
     depth_or_array_layers |-> 1, mip_level_count |-> 1, sample_count |-> 1,
     dimension |-> "D2", format |-> "R8Unorm",
     usage |-> {"RENDER_ATTACHMENT", "TEXTURE_BINDING"}]

\* texture_cache.get (line 314): the pool hands out a texture of the
\* descriptor asked for.  Which one is the pool's choice, and the pool is not
\* part of this source: the model allows a texture already taken with the same
\* descriptor this frame, and one not taken yet.  The result is the set of
\* possible <<cache, texture>> outcomes.
TextureCacheGet(cache, descriptor) ==
    LET same == {t \in TextureIds : cache[t] = Some(descriptor)}
        free == {t \in TextureIds : cache[t] = None}
        new  == IF free = {} THEN {}
                ELSE {CHOOSE t \in free : \A u \in free : t <= u}
    IN {[cache   |-> [cache EXCEPT ![t] = Some(descriptor)],
         texture |-> [id |-> t, width |-> descriptor.width,
                      height |-> descriptor.height,
                      format |-> descriptor.format]] : t \in same \cup new}

\* OrthographicArea with the footprint's width and height exchanged: a
\* variant that bounds the area by the wrong sides.
OrthographicAreaExchanged(frustum_intersect) ==
    LET half_width  == F32Div(U32ToF32(frustum_intersect.height), U32ToF32(2))
        half_height == F32Div(U32ToF32(frustum_intersect.width), U32ToF32(2))
    IN <<[neg |-> TRUE, abs |-> half_width], [neg |-> TRUE, abs |-> half_height],
         [neg |-> FALSE, abs |-> half_width], [neg |-> FALSE, abs |-> half_height]>>

\* The area of lines 333-339: left, bottom, right, top, each a signed f32
\* (its sign and its magnitude).  The footprint's width and height are
\* positive f32 values, whole numbers in the model; `/ -2.` and `/ 2.` are
\* f32 divisions.
OrthographicArea(frustum_intersect) ==
    LET half_width  == F32Div(U32ToF32(frustum_intersect.width), U32ToF32(2))
        half_height == F32Div(U32ToF32(frustum_intersect.height), U32ToF32(2))
    IN <<[neg |-> TRUE, abs |-> half_width], [neg |-> TRUE, abs |-> half_height],
         [neg |-> FALSE, abs |-> half_width], [neg |-> FALSE, abs |-> half_height]>>

\* InsertShadowView with the viewport taken from the grid's footprint: a
\* variant whose viewport is not that of the texture.
InsertShadowViewFootprintViewport(entity, frustum_intersect, texture, width, height) ==
    [kind |-> "view", entity |-> entity,
     ExtractedView  |-> [area |-> OrthographicArea(frustum_intersect),
                         hdr |-> FALSE,
                         viewport |-> <<0, 0, frustum_intersect.width,
                                        frustum_intersect.height>>],
     GridShadowView |-> [texture_view |-> texture]]

\* The insert of lines 343-359.
InsertShadowView(entity, frustum_intersect, texture, width, height) ==
    [kind |-> "view", entity |-> entity,
     ExtractedView  |-> [area |-> OrthographicArea(frustum_intersect),
                         hdr |-> FALSE,
                         viewport |-> <<0, 0, width, height>>],
     GridShadowView |-> [texture_view |-> texture]]

\* PrepareViewsLoop with a `break` at the end of the body: a variant that
\* prepares the first grid of the query only.
PrepareViewsLoopFirstOnly(entities, width, height, cache, cmds) ==
    IF entities = <<>> THEN {[texture_cache |-> cache, commands |-> cmds]}
    ELSE LET entity == Head(entities) IN
         {[texture_cache |-> got.cache,
           commands |-> Append(cmds, InsertShadowView(entity, grids[entity][1],
                                                      got.texture, width, height))] :
            got \in TextureCacheGet(cache, ShadowTextureDescriptor(width, height))}

\* The loop of lines 313-360 over the grids of the query, in order: the set of
\* possible [texture_cache, commands] outcomes.
RECURSIVE PrepareViewsLoop(_, _, _, _, _)
PrepareViewsLoop(entities, width, height, cache, cmds) ==
    IF entities = <<>> THEN {[texture_cache |-> cache, commands |-> cmds]}
    ELSE LET entity == Head(entities) IN
         UNION {PrepareViewsLoop(Tail(entities), width, height, got.cache,
                    Append(cmds, InsertShadowView(entity, grids[entity][1],
                                                  got.texture, width, height))) :
                got \in TextureCacheGet(cache, ShadowTextureDescriptor(width, height))}

\* prepare_grid_shadow_views with a fallback where lines 296-300 return: a
\* variant that sizes the texture for a 1 x 1 window when none is known.
prepare_grid_shadow_views_fallback ==
    /\ ~crashed
    /\ "extract" \in done
    /\ "prepare_grid_shadow_views" \notin done
    /\ done' = done \cup {"prepare_grid_shadow_views"}
    /\ LET window == IF windows = None THEN <<1, 1>> ELSE windows[1]
           size == TextureSize(window[1], window[2], settings.max_texture_size)
           query == SeqOf({g \in Grids : grids[g] # None})
       IN \E out \in PrepareViewsLoop(query, size[1], size[2],
                                      texture_cache, commands) :
              /\ texture_cache' = out.texture_cache
              /\ commands' = out.commands
    /\ UNCHANGED <<scene, settings, extracted_view, shadow_view, view_offset,
                   bind_group, view_uniforms, shadow_uniforms, meta, phase,
                   pipelines, node_grids, passes, crashed>>

prepare_grid_shadow_views ==
    /\ ~crashed
    /\ "extract" \in done
    /\ "prepare_grid_shadow_views" \notin done
    /\ done' = done \cup {"prepare_grid_shadow_views"}
    /\ IF windows = None
       THEN UNCHANGED <<texture_cache, commands>>
       ELSE LET size == TextureSize(windows[1][1], windows[1][2],
                                    settings.max_texture_size)
                query == SeqOf({g \in Grids : grids[g] # None})
            IN \E out \in PrepareViewsLoop(query, size[1], size[2],
                                           texture_cache, commands) :
                   /\ texture_cache' = out.texture_cache
                   /\ commands' = out.commands
    /\ UNCHANGED <<scene, settings, extracted_view, shadow_view, view_offset,
                   bind_group, view_uniforms, shadow_uniforms, meta, phase,
                   pipelines, node_grids, passes, crashed>>

(***************************************************************************)
(* Deferred inserts.  An insert replaces the component the entity has.     *)
(***************************************************************************)
\* The last queued insert of `kind` on `entity`, if any.
LastInsert(cmds, kind, entity) ==
    LET at == {i \in 1..Len(cmds) : cmds[i].kind = kind /\ cmds[i].entity = entity}
    IN IF at = {} THEN None
       ELSE Some(cmds[CHOOSE i \in at : \A j \in at : j <= i])

ApplyCommands ==
    /\ extracted_view' = [g \in Grids |->
          IF LastInsert(commands, "view", g) = None THEN extracted_view[g]
          ELSE Some(LastInsert(commands, "view", g)[1].ExtractedView)]
    /\ shadow_view' = [g \in Grids |->
          IF LastInsert(commands, "view", g) = None THEN shadow_view[g]
          ELSE Some(LastInsert(commands, "view", g)[1].GridShadowView)]
    /\ bind_group' = [g \in Grids |->
          IF LastInsert(commands, "bind_group", g) = None THEN bind_group[g]
          ELSE Some(LastInsert(commands, "bind_group", g)[1].GridShadowBindGroup)]
    /\ commands' = <<>>

\* apply_deferred without the `.chain()` of line 589: a variant that may run
\* before prepare_grid_shadow_views queued its inserts.
apply_deferred_unchained ==
    /\ ~crashed
    /\ "extract" \in done
    /\ "apply_deferred" \notin done
    /\ done' = done \cup {"apply_deferred"}
    /\ ApplyCommands
    /\ UNCHANGED <<scene, settings, texture_cache, view_offset, view_uniforms,
                   shadow_uniforms, meta, phase, pipelines, node_grids, passes,
                   crashed>>

\* The chain of line 588 without its apply_deferred: a variant that leaves the
\* inserts of prepare_grid_shadow_views queued until the host's next flush.
apply_deferred_left_out ==
    /\ ~crashed
    /\ "prepare_grid_shadow_views" \in done
    /\ "apply_deferred" \notin done
    /\ done' = done \cup {"apply_deferred"}
    /\ UNCHANGED <<scene, settings, commands, texture_cache, extracted_view,
                   shadow_view, bind_group, view_offset, view_uniforms,
                   shadow_uniforms, meta, phase, pipelines, node_grids, passes,
                   crashed>>

\* The apply_deferred chained after prepare_grid_shadow_views (line 588).
apply_deferred ==
    /\ ~crashed
    /\ "prepare_grid_shadow_views" \in done
    /\ "apply_deferred" \notin done
    /\ done' = done \cup {"apply_deferred"}
    /\ ApplyCommands
    /\ UNCHANGED <<scene, settings, texture_cache, view_offset, view_uniforms,
                   shadow_uniforms, meta, phase, pipelines, node_grids, passes,
                   crashed>>

\* The host's prepare_view_uniforms, which the chain of lines 588-590 runs
\* before, and the preparation of GridShadowUniforms: every entity with an
\* ExtractedView gets a ViewUniformOffset, and the view uniform buffer has a
\* binding when a view was written.  When none was, and for the shadow
\* uniforms, the binding is the host's: either value.
prepare_view_uniforms ==
    /\ ~crashed
    /\ "apply_deferred" \in done
    /\ "prepare_view_uniforms" \notin done
    /\ done' = done \cup {"prepare_view_uniforms"}
    /\ view_offset' = [g \in Grids |-> extracted_view[g] # None]
    /\ view_uniforms' \in IF \E g \in Grids : extracted_view[g] # None
                          THEN {TRUE} ELSE BOOLEAN
    /\ shadow_uniforms' \in BOOLEAN
    /\ UNCHANGED <<scene, settings, commands, texture_cache, extracted_view,
                   shadow_view, bind_group, meta, phase, pipelines, node_grids,
                   passes, crashed>>

(***************************************************************************)
(* The PrepareBindGroups systems (lines 363-407).                          *)
(***************************************************************************)
\* prepare_grid_shadow_view_bind_group testing the binding of the shadow
\* uniforms where line 369 tests that of the view uniforms: a variant that
\* looks at the wrong buffer.
prepare_grid_shadow_view_bind_group_other_buffer ==
    /\ ~crashed
    /\ "prepare_view_uniforms" \in done
    /\ "prepare_grid_shadow_view_bind_group" \notin done
    /\ done' = done \cup {"prepare_grid_shadow_view_bind_group"}
    /\ meta' = IF shadow_uniforms
               THEN [meta EXCEPT !.view_bind_group = Some("this_frame")]
               ELSE meta
    /\ UNCHANGED <<scene, settings, commands, texture_cache, extracted_view,
                   shadow_view, view_offset, bind_group, view_uniforms,
                   shadow_uniforms, phase, pipelines, node_grids, passes, crashed>>

\* prepare_grid_shadow_view_bind_group with an else branch that resets the
\* field: a variant that drops the bind group in a frame without a binding.
prepare_grid_shadow_view_bind_group_resetting ==
    /\ ~crashed
    /\ "prepare_view_uniforms" \in done
    /\ "prepare_grid_shadow_view_bind_group" \notin done
    /\ done' = done \cup {"prepare_grid_shadow_view_bind_group"}
    /\ meta' = IF view_uniforms
               THEN [meta EXCEPT !.view_bind_group = Some("this_frame")]
               ELSE [meta EXCEPT !.view_bind_group = None]
    /\ UNCHANGED <<scene, settings, commands, texture_cache, extracted_view,
                   shadow_view, view_offset, bind_group, view_uniforms,
                   shadow_uniforms, phase, pipelines, node_grids, passes, crashed>>

\* prepare_grid_shadow_view_bind_group (lines 363-376): the field is assigned
\* in the branch of line 369 only.
prepare_grid_shadow_view_bind_group ==
    /\ ~crashed
    /\ "prepare_view_uniforms" \in done
    /\ "prepare_grid_shadow_view_bind_group" \notin done
    /\ done' = done \cup {"prepare_grid_shadow_view_bind_group"}
    /\ meta' = IF view_uniforms
               THEN [meta EXCEPT !.view_bind_group = Some("this_frame")]
               ELSE meta
    /\ UNCHANGED <<scene, settings, commands, texture_cache, extracted_view,
                   shadow_view, view_offset, bind_group, view_uniforms,
                   shadow_uniforms, phase, pipelines, node_grids, passes, crashed>>

\* The insert of lines 402-404.
InsertShadowBindGroup(entity, view) ==
    [kind |-> "bind_group", entity |-> entity,
     GridShadowBindGroup |-> [texture_view |-> view.texture_view,
                              sampler |-> "grid_shadow_sampler"]]

\* prepare_grid_shadow_bind_groups without the test of line 391: a variant
\* that builds the bind groups whether or not the uniforms have a binding.
prepare_grid_shadow_bind_groups_unconditional ==
    /\ ~crashed
    /\ "prepare_view_uniforms" \in done
    /\ "prepare_grid_shadow_bind_groups" \notin done
    /\ done' = done \cup {"prepare_grid_shadow_bind_groups"}
    /\ commands' =
          LET query == SeqOf({g \in Grids : shadow_view[g] # None})
          IN commands \o [i \in 1..Len(query) |->
                 InsertShadowBindGroup(query[i], shadow_view[query[i]][1])]
    /\ UNCHANGED <<scene, settings, texture_cache, extracted_view, shadow_view,
                   view_offset, bind_group, view_uniforms, shadow_uniforms, meta,
                   phase, pipelines, node_grids, passes, crashed>>

prepare_grid_shadow_bind_groups ==
    /\ ~crashed
    /\ "prepare_view_uniforms" \in done
    /\ "prepare_grid_shadow_bind_groups" \notin done
    /\ done' = done \cup {"prepare_grid_shadow_bind_groups"}
    /\ commands' =
          IF shadow_uniforms
          THEN LET query == SeqOf({g \in Grids : shadow_view[g] # None})
               IN commands \o [i \in 1..Len(query) |->
                      InsertShadowBindGroup(query[i], shadow_view[query[i]][1])]
          ELSE commands
    /\ UNCHANGED <<scene, settings, texture_cache, extracted_view, shadow_view,
                   view_offset, bind_group, view_uniforms, shadow_uniforms, meta,
                   phase, pipelines, node_grids, passes, crashed>>

\* The host applies the deferred inserts of the PrepareBindGroups systems
\* before the render graph runs.
flush ==
    /\ ~crashed
    /\ {"prepare_grid_shadow_bind_groups",
        "prepare_grid_shadow_view_bind_group"} \subseteq done
    /\ "flush" \notin done
    /\ done' = done \cup {"flush"}
    /\ ApplyCommands
    /\ UNCHANGED <<scene, settings, texture_cache, view_offset, view_uniforms,
                   shadow_uniforms, meta, phase, pipelines, node_grids, passes,
                   crashed>>

(***************************************************************************)
(* Pipeline specialization.                                                *)
(***************************************************************************)
\* GridShadowPipeline::specialize (lines 170-243): the descriptor, or an
\* error when the mesh's layout lacks an attribute the vertex stage reads
\* (layout.get_layout, line 204).
Specialize(key, layout) ==
    LET vertex_attributes == {"POSITION"}
    IN IF ~(vertex_attributes \subseteq layout)
       THEN [ok |-> FALSE]
       ELSE [ok |-> TRUE,
             descriptor |->
                [label |-> "grid_shadow_pipeline",
                 vertex_attributes |-> vertex_attributes,
                 layout |-> <<"view_layout", "material_layout", "mesh_layout">>,
                 target_format |-> "R8Unorm", blend |-> None,
                 write_mask |-> "RED", topology |-> key.mesh_key,
                 cull_mode |-> None, polygon_mode |-> "Fill",
                 depth_stencil |-> None]]

\* pipelines.specialize (line 444): the cache of specialized pipelines, keyed
\* by key and layout.  A hit returns the cached id; a miss specializes, and on
\* success stores a new id.  The outcome is [cache, result].
PipelinesSpecialize(cache, key, layout) ==
    LET k == [key |-> key, layout |-> layout] IN
    IF cache[k] # None THEN [cache |-> cache, result |-> [ok |-> TRUE, id |-> cache[k][1]]]
    ELSE LET built == Specialize(key, layout) IN
         IF ~built.ok THEN [cache |-> cache, result |-> [ok |-> FALSE]]
         ELSE LET id == 1 + Cardinality({c \in PipelineKeys : cache[c] # None})
              IN [cache  |-> [cache EXCEPT ![k] = Some(id)],
                  result |-> [ok |-> TRUE, id |-> id]]

(***************************************************************************)
(* queue_grid_shadows (lines 410-465).                                     *)
(***************************************************************************)
\* register_shadow without the add_render_command of line 585: a variant
\* that registers no draw function.
DrawFunctionsNone == {}

\* DrawFunctions<GridShadow> as register_shadow leaves it (lines 582, 585).
DrawFunctions == {"DrawGridShadowMesh"}

\* The item of lines 454-460.
GridShadow(entity, pipeline_id) ==
    [draw_function |-> "DrawGridShadowMesh", pipeline |-> pipeline_id,
     entity |-> entity, batch_range |-> <<0, 1>>, dynamic_offset |-> None]

\* QueueEntity without the test of line 431: a variant that queues entities
\* that cast no shadow.
QueueEntityAnyCaster(entity, items, cache) ==
    LET skip == [items |-> items, cache |-> cache]
        mesh_instance == render_mesh_instances[entity]
        material_asset_id == render_material_instances[entity]
    IN IF mesh_instance = None \/ material_asset_id = None THEN skip
       ELSE LET mesh == RenderMeshes(mesh_instance[1].mesh_asset_id)
                material == RenderMaterials(material_asset_id[1])
            IN IF mesh = None \/ material = None THEN skip
               ELSE LET key == [mesh_key |-> mesh[1].primitive_topology,
                                bind_group_data |-> material[1].key]
                        got == PipelinesSpecialize(cache, key, mesh[1].layout)
                    IN IF ~got.result.ok
                       THEN [items |-> items, cache |-> got.cache]
                       ELSE [items |-> Append(items, GridShadow(entity, got.result.id)),
                             cache |-> got.cache]

\* One pass of the inner loop's body (lines 427-462) for `entity`: the
\* [items, cache] after it.
QueueEntity(entity, items, cache) ==
    LET skip == [items |-> items, cache |-> cache]
        mesh_instance == render_mesh_instances[entity]
        material_asset_id == render_material_instances[entity]
    IN IF mesh_instance = None \/ material_asset_id = None THEN skip
       ELSE IF ~mesh_instance[1].shadow_caster THEN skip
       ELSE LET mesh == RenderMeshes(mesh_instance[1].mesh_asset_id)
                material == RenderMaterials(material_asset_id[1])
            IN IF mesh = None \/ material = None THEN skip
               ELSE LET key == [mesh_key |-> mesh[1].primitive_topology,
                                bind_group_data |-> material[1].key]
                        got == PipelinesSpecialize(cache, key, mesh[1].layout)
                    IN IF ~got.result.ok
                       THEN [items |-> items, cache |-> got.cache]
                       ELSE [items |-> Append(items, GridShadow(entity, got.result.id)),
                             cache |-> got.cache]

\* QueueEntities with a `break` where line 450 has `continue`: a variant
\* that leaves the grid's loop at the first entity that adds no item although
\* its mesh and material resolved (a failed specialization).
RECURSIVE QueueEntitiesBreak(_, _, _)
QueueEntitiesBreak(entities, items, cache) ==
    IF entities = <<>> THEN [items |-> items, cache |-> cache]
    ELSE LET entity == Head(entities)
             next == QueueEntity(entity, items, cache)
             failed ==
                /\ next.items = items
                /\ render_mesh_instances[entity] # None
                /\ render_material_instances[entity] # None
                /\ render_mesh_instances[entity][1].shadow_caster
                /\ RenderMeshes(render_mesh_instances[entity][1].mesh_asset_id) # None
                /\ RenderMaterials(render_material_instances[entity][1]) # None
         IN IF failed THEN next
            ELSE QueueEntitiesBreak(Tail(entities), next.items, next.cache)

\* The inner loop (line 426) over a grid's visible entities, in order.
RECURSIVE QueueEntities(_, _, _)
QueueEntities(entities, items, cache) ==
    IF entities = <<>> THEN [items |-> items, cache |-> cache]
    ELSE LET next == QueueEntity(Head(entities), items, cache)
         IN QueueEntities(Tail(entities), next.items, next.cache)

\* The outer loop (line 425) over the grids of the query, in order: the
\* [phase, cache] after it.
RECURSIVE QueueGrids(_, _, _)
QueueGrids(query, ph, cache) ==
    IF query = <<>> THEN [phase |-> ph, cache |-> cache]
    ELSE LET g == Head(query)
             next == QueueEntities(visible_entities[g], ph[g], cache)
         IN QueueGrids(Tail(query), [ph EXCEPT ![g] = next.items], next.cache)

\* queue_grid_shadows with a cache of its own instead of the resource of
\* line 416: a variant that starts every frame from an empty cache.
queue_grid_shadows_local_cache ==
    /\ ~crashed
    /\ "extract" \in done
    /\ "queue_grid_shadows" \notin done
    /\ "update" \notin done
    /\ done' = done \cup {"queue_grid_shadows"}
    /\ LET out == QueueGrids(SeqOf({g \in Grids : grids[g] # None}), phase,
                             [k \in PipelineKeys |-> None])
       IN /\ phase' = out.phase
          /\ pipelines' = out.cache
    /\ UNCHANGED <<scene, settings, commands, texture_cache, extracted_view,
                   shadow_view, view_offset, bind_group, view_uniforms,
                   shadow_uniforms, meta, node_grids, passes, crashed>>

\* The draw function is looked up first (lines 421-424): the unwrap panics
\* when DrawGridShadowMesh was not registered.
queue_grid_shadows ==
    /\ ~crashed
    /\ "extract" \in done
    /\ "queue_grid_shadows" \notin done
    /\ "update" \notin done
    /\ done' = done \cup {"queue_grid_shadows"}
    /\ IF "DrawGridShadowMesh" \notin DrawFunctions
       THEN crashed' = TRUE /\ UNCHANGED <<phase, pipelines>>
       ELSE LET out == QueueGrids(SeqOf({g \in Grids : grids[g] # None}),
                                  phase, pipelines)
            IN /\ phase' = out.phase
               /\ pipelines' = out.cache
               /\ UNCHANGED crashed
    /\ UNCHANGED <<scene, settings, commands, texture_cache, extracted_view,
                   shadow_view, view_offset, bind_group, view_uniforms,
                   shadow_uniforms, meta, node_grids, passes>>

(***************************************************************************)
(* GridShadowPassNode (lines 489-550).                                     *)
(***************************************************************************)
\* update without the clear of line 515: a variant that extends the list of
\* the frame before.
update_without_clear ==
    /\ ~crashed
    /\ {"flush", "queue_grid_shadows"} \subseteq done
    /\ "update" \notin done
    /\ done' = done \cup {"update"}
    /\ node_grids' = node_grids \o SeqOf({g \in Grids : shadow_view[g] # None})
    /\ UNCHANGED <<scene, settings, commands, texture_cache, extracted_view,
                   shadow_view, view_offset, bind_group, view_uniforms,
                   shadow_uniforms, meta, phase, pipelines, passes, crashed>>

\* update over every grid entity: a variant whose query is not filtered by
\* With<GridShadowView>.
update_every_grid ==
    /\ ~crashed
    /\ {"flush", "queue_grid_shadows"} \subseteq done
    /\ "update" \notin done
    /\ done' = done \cup {"update"}
    /\ node_grids' = SeqOf({g \in Grids : grids[g] # None})
    /\ UNCHANGED <<scene, settings, commands, texture_cache, extracted_view,
                   shadow_view, view_offset, bind_group, view_uniforms,
                   shadow_uniforms, meta, phase, pipelines, passes, crashed>>

\* update (lines 514-518): the list is cleared and refilled from the query
\* of the entities with a GridShadowView.
update ==
    /\ ~crashed
    /\ {"flush", "queue_grid_shadows"} \subseteq done
    /\ "update" \notin done
    /\ done' = done \cup {"update"}
    /\ node_grids' = SeqOf({g \in Grids : shadow_view[g] # None})
    /\ UNCHANGED <<scene, settings, commands, texture_cache, extracted_view,
                   shadow_view, view_offset, bind_group, view_uniforms,
                   shadow_uniforms, meta, phase, pipelines, passes, crashed>>

\* RenderPass targeting the view of the first grid of the node's list: a
\* variant that takes the attachment outside the loop.
RenderPassFirstView(entity, draws) ==
    [label |-> "grid_shadow_pass", entity |-> entity,
     view |-> shadow_view[Head(node_grids)][1].texture_view,
     load |-> "Clear(BLACK)", store |-> "Store",
     depth_stencil_attachment |-> None, draws |-> draws]

\* The pass of lines 529-545 on `entity`, with the items its phase drew.
RenderPass(entity, draws) ==
    [label |-> "grid_shadow_pass", entity |-> entity,
     view |-> shadow_view[entity][1].texture_view,
     load |-> "Clear(BLACK)", store |-> "Store",
     depth_stencil_attachment |-> None, draws |-> draws]

\* RunLoop that begins no pass for a grid whose phase is empty: a variant
\* that skips the clear of a grid without casters.
RECURSIVE RunLoopSkipEmpty(_, _)
RunLoopSkipEmpty(entities, begun) ==
    IF entities = <<>> THEN [passes |-> begun, crashed |-> FALSE]
    ELSE LET entity == Head(entities) IN
         IF shadow_view[entity] = None \/ grids[entity] = None \/ ~view_offset[entity]
         THEN [passes |-> begun, crashed |-> TRUE]
         ELSE IF phase[entity] = <<>>
         THEN RunLoopSkipEmpty(Tail(entities), begun)
         ELSE IF meta.view_bind_group = None
         THEN [passes |-> Append(begun, RenderPass(entity, <<>>)), crashed |-> TRUE]
         ELSE RunLoopSkipEmpty(Tail(entities),
                               Append(begun, RenderPass(entity, phase[entity])))

\* The loop of lines 526-546 over the node's list: [passes, crashed].  The
\* unwrap of line 528 panics for an entity without a GridShadowView, a
\* RenderPhase or a ViewUniformOffset; rendering an item runs
\* SetGridShadowViewBindGroup, whose unwrap (line 275) panics without a view
\* bind group.
RECURSIVE RunLoop(_, _)
RunLoop(entities, begun) ==
    IF entities = <<>> THEN [passes |-> begun, crashed |-> FALSE]
    ELSE LET entity == Head(entities) IN
         IF shadow_view[entity] = None \/ grids[entity] = None \/ ~view_offset[entity]
         THEN [passes |-> begun, crashed |-> TRUE]
         ELSE IF phase[entity] # <<>> /\ meta.view_bind_group = None
         THEN [passes |-> Append(begun, RenderPass(entity, <<>>)), crashed |-> TRUE]
         ELSE RunLoop(Tail(entities),
                      Append(begun, RenderPass(entity, phase[entity])))

\* run that hands the textures back to the pool once the passes are begun: a
\* variant that writes to the pool in the Render stage.
run_releasing ==
    /\ ~crashed
    /\ "update" \in done
    /\ "run" \notin done
    /\ done' = done \cup {"run"}
    /\ LET out == RunLoop(node_grids, <<>>)
       IN /\ passes' = out.passes
          /\ crashed' = out.crashed
    /\ texture_cache' = NoTextures
    /\ UNCHANGED <<scene, settings, commands, extracted_view,
                   shadow_view, view_offset, bind_group, view_uniforms,
                   shadow_uniforms, meta, phase, pipelines, node_grids>>

run ==
    /\ ~crashed
    /\ "update" \in done
    /\ "run" \notin done
    /\ done' = done \cup {"run"}
    /\ LET out == RunLoop(node_grids, <<>>)
       IN /\ passes' = out.passes
          /\ crashed' = out.crashed
    /\ UNCHANGED <<scene, settings, commands, texture_cache, extracted_view,
                   shadow_view, view_offset, bind_group, view_uniforms,
                   shadow_uniforms, meta, phase, pipelines, node_grids>>

\* The end of a frame, once every step in `after` ran: the host clears the
\* entities of the render world and releases the textures taken; the
\* resources (settings, meta, pipelines) and the node stay.
EndFrame(after) ==
    /\ ~crashed
    /\ after \subseteq done
    /\ windows' = None
    /\ grids' = NoGrids
    /\ visible_entities' = NoLists
    /\ render_mesh_instances' = NoInstances
    /\ render_material_instances' = NoInstances
    /\ commands' = <<>>
    /\ texture_cache' = NoTextures
    /\ extracted_view' = NoGrids
    /\ shadow_view' = NoGrids
    /\ view_offset' = NoOffsets
    /\ bind_group' = NoGrids
    /\ view_uniforms' = FALSE
    /\ shadow_uniforms' = FALSE
    /\ phase' = NoLists
    /\ passes' = <<>>
    /\ done' = {}
    /\ meta' = IF meta.view_bind_group = None THEN meta
               ELSE [meta EXCEPT !.view_bind_group = Some("earlier_frame")]
    /\ UNCHANGED <<settings, pipelines, node_grids, crashed>>

(***************************************************************************)
(* The render graph (lines 611-615).  register_shadow adds the shadow pass *)
(* node to the Core3d graph with one edge, to Node3d::EndMainPass.  The    *)
(* host's runner runs a node once every node with an edge into it has run. *)
(* The graph's other nodes are the host's: the main pass, its end, and the *)
(* shading pass that samples the shadow texture downstream of that end.    *)
(***************************************************************************)
\* register_shadow without line 615: a variant that adds the node and no edge.
ShadowEdgesNone == {}

\* The edge of line 615, from the shadow pass node (its run) to EndMainPass.
ShadowEdges == {<<"run", "end_main_pass">>}

HostEdges == {<<"main_pass", "end_main_pass">>, <<"end_main_pass", "shading_pass">>}

HostNodes == {"main_pass", "end_main_pass", "shading_pass"}

Predecessors(n) == {e[1] : e \in {d \in ShadowEdges \cup HostEdges : d[2] = n}}

\* The runner runs the host's node n.
GraphNode(n) ==
    /\ ~crashed
    /\ "update" \in done
    /\ n \notin done
    /\ Predecessors(n) \subseteq done
    /\ done' = done \cup {n}
    /\ UNCHANGED <<scene, settings, commands, texture_cache, extracted_view,
                   shadow_view, view_offset, bind_group, view_uniforms,
                   shadow_uniforms, meta, phase, pipelines, node_grids, passes,
                   crashed>>

(***************************************************************************)
(* Specifications.                                                         *)
(***************************************************************************)
\* The lists of visible entities the specifications draw from: none visible,
\* the first entity alone, and all entities in either order.
SomeVisibleLists ==
    {<<>>, <<1>>, SeqOf(Entities),
     [i \in 1..NumEntities |-> NumEntities + 1 - i]}

Footprint == [width |-> 100, height |-> 50]

\* RenderSettings::default (line 560).
DefaultMaxTextureSize == 16384

\* The whole frame, on a scene of loaded shadow casters and non-casters.
ExtractFrame ==
    Extract({None, Some(<<1920, 1080>>)},
            {None, Some(Footprint)},
            SomeVisibleLists,
            {Some([shadow_caster |-> TRUE, mesh_asset_id |-> 1]),
             Some([shadow_caster |-> FALSE, mesh_asset_id |-> 1])},
            {Some(1)})

Frame ==
    \/ prepare_grid_shadow_views
    \/ apply_deferred
    \/ prepare_view_uniforms
    \/ prepare_grid_shadow_bind_groups
    \/ prepare_grid_shadow_view_bind_group
    \/ flush
    \/ queue_grid_shadows
    \/ update
    \/ run
    \/ EndFrame({"run"})

Init == InitWith({DefaultMaxTextureSize})

Next == ExtractFrame \/ Frame

Spec == Init /\ [][Next]_vars

\* The sizing of the shadow texture, over viewports of every small size and
\* a few real ones, and over small, usual and very large maximum sizes: the
\* frames run prepare_grid_shadow_views and its apply_deferred only.
SizerViewports ==
    {<<w, h>> : w, h \in 1..MaxDim}
        \cup {<<1920, 1080>>, <<1080, 1920>>, <<2049, 1793>>}

SizerMaxTextureSizes ==
    (1..MaxDim) \cup {DefaultMaxTextureSize, Pow2(22) - 1, Pow2(24) + 3}

ExtractSizer ==
    Extract({Some(v) : v \in SizerViewports}, {Some(Footprint)}, {<<>>},
            {None}, {None})

InitSizer == InitWith(SizerMaxTextureSizes)

NextSizer ==
    \/ ExtractSizer
    \/ prepare_grid_shadow_views
    \/ apply_deferred
    \/ EndFrame({"apply_deferred"})

SpecSizer == InitSizer /\ [][NextSizer]_vars

\* The queueing of shadow casters, over every combination of instance,
\* caster flag and asset resolution: the frames run queue_grid_shadows only,
\* and every grid is present.  A mesh instance that is no caster points to a
\* resolved mesh (1) or to an unresolved one (3).
AllMeshInstances ==
    {None} \cup {Some([shadow_caster |-> TRUE, mesh_asset_id |-> m]) : m \in MeshIds}
           \cup {Some([shadow_caster |-> FALSE, mesh_asset_id |-> m]) : m \in {1, 3}}

AllMaterialInstances == {None} \cup {Some(t) : t \in MaterialIds}

ExtractQueue ==
    Extract({Some(<<1920, 1080>>)}, {Some(Footprint)}, SomeVisibleLists,
            AllMeshInstances, AllMaterialInstances)

NextQueue ==
    \/ ExtractQueue
    \/ queue_grid_shadows
    \/ EndFrame({"queue_grid_shadows"})

SpecQueue == Init /\ [][NextQueue]_vars

\* The frame with the render graph around the shadow pass node: the systems,
\* then the graph's nodes in any order its edges allow.
ExtractGraph ==
    Extract({None, Some(<<1920, 1080>>)}, {None, Some(Footprint)},
            {<<>>, SeqOf(Entities)},
            {Some([shadow_caster |-> TRUE, mesh_asset_id |-> 1])}, {Some(1)})

NextGraph ==
    \/ ExtractGraph
    \/ prepare_grid_shadow_views
    \/ apply_deferred
    \/ prepare_view_uniforms
    \/ prepare_grid_shadow_bind_groups
    \/ prepare_grid_shadow_view_bind_group
    \/ flush
    \/ queue_grid_shadows
    \/ update
    \/ run
    \/ \E n \in HostNodes : GraphNode(n)
    \/ EndFrame({"run"} \cup HostNodes)

SpecGraph == Init /\ [][NextGraph]_vars

\* The whole frame under every recoverable error: no primary window, no
\* uniform binding (prepare_view_uniforms), a mesh whose specialization fails
\* (2), an unresolved mesh (3) and an unresolved material (2).
ExtractErrors ==
    Extract({None, Some(<<1920, 1080>>)}, {Some(Footprint)},
            {<<>>, SeqOf(Entities)},
            {Some([shadow_caster |-> TRUE, mesh_asset_id |-> m]) : m \in {1, 2, 3}},
            {Some(1), Some(2)})

SpecErrors == Init /\ [][ExtractErrors \/ Frame]_vars

\* The orthographic area, over footprints of several widths, heights and
\* centres and over a landscape and a portrait window: the frames run
\* prepare_grid_shadow_views and its apply_deferred only.
AreaFootprints ==
    {[width |-> w, height |-> h, center |-> c] :
        w \in 1..MaxFootprint, h \in {1, 50}, c \in {0, 7}}
        \cup {[width |-> 100, height |-> 50, center |-> 0],
              [width |-> 50, height |-> 100, center |-> 7]}

ExtractArea ==
    Extract({Some(<<1920, 1080>>), Some(<<1080, 1920>>)},
            {Some(f) : f \in AreaFootprints}, {<<>>}, {None}, {None})

NextArea ==
    \/ ExtractArea
    \/ prepare_grid_shadow_views
    \/ apply_deferred
    \/ EndFrame({"apply_deferred"})

SpecArea == Init /\ [][NextArea]_vars

(***************************************************************************)
(* Properties.                                                             *)
(***************************************************************************)
IsCaster(e) ==
    render_mesh_instances[e] # None /\ render_mesh_instances[e][1].shadow_caster

MeshResolved(e) ==
    /\ render_mesh_instances[e] # None
    /\ RenderMeshes(render_mesh_instances[e][1].mesh_asset_id) # None

MaterialResolved(e) ==
    /\ render_material_instances[e] # None
    /\ RenderMaterials(render_material_instances[e][1]) # None

\* A visible entity the queue stage has to draw if its pipeline specializes.
Eligible(e) == IsCaster(e) /\ MeshResolved(e) /\ MaterialResolved(e)

HasPosition(e) ==
    "POSITION" \in RenderMeshes(render_mesh_instances[e][1].mesh_asset_id)[1].layout

\* The key and layout queue_grid_shadows specializes an eligible entity with.
KeyOf(e) ==
    LET mesh == RenderMeshes(render_mesh_instances[e][1].mesh_asset_id)[1]
        material == RenderMaterials(render_material_instances[e][1])[1]
    IN [key |-> [mesh_key |-> mesh.primitive_topology,
                 bind_group_data |-> material.key],
        layout |-> mesh.layout]

PhaseEntities(g) == [i \in 1..Len(phase[g]) |-> phase[g][i].entity]

Queued(e, g) == \E i \in 1..Len(phase[g]) : phase[g][i].entity = e

\* C1: every item of every grid's shadow phase is of an entity that is in the
\* grid's visible-entity list, has a mesh instance flagged shadow_caster, and
\* whose mesh and material both resolved in this frame; an entity that is not
\* a shadow caster is in no grid's phase, whatever resolved.
C1_ItemsAreVisibleResolvedCasters ==
    \A g \in Grids : \A i \in 1..Len(phase[g]) :
        LET e == phase[g][i].entity
        IN /\ e \in Range(visible_entities[g])
           /\ IsCaster(e)
           /\ MeshResolved(e)
           /\ MaterialResolved(e)

\* C1's case: the queue stage ran, queued an item for a grid, and left out a
\* visible entity of that grid whose mesh and material resolved but which is
\* not a shadow caster.
C1_Witness ==
    /\ "queue_grid_shadows" \in done
    /\ \E g \in Grids : \E e \in Range(visible_entities[g]) :
          /\ phase[g] # <<>>
          /\ ~IsCaster(e) /\ MeshResolved(e) /\ MaterialResolved(e)
          /\ ~Queued(e, g)

\* floor(a * b / c) without forming a * b.
FloorMulDiv(a, b, c) == (a \div c) * b + ((a % c) * b) \div c

\* The size C2 states: the long axis is M, the short axis floor(M * min / max),
\* and the height is the long axis exactly when w < h.
ClaimedTextureSize(w, h, M) ==
    IF w < h THEN <<FloorMulDiv(M, w, h), M>> ELSE <<M, FloorMulDiv(M, h, w)>>

ViewSize(g) == <<shadow_view[g][1].texture_view.width,
                 shadow_view[g][1].texture_view.height>>

\* C2: the texture of every shadow view has the size the claim states for the
\* frame's primary viewport (w, h) and max_texture_size M: long axis M, short
\* axis floor(M * min(w,h) / max(w,h)), the height long exactly when w < h.
C2_SizeIsFloorOfExactRatio ==
    \A g \in Grids : shadow_view[g] # None =>
        ViewSize(g) = ClaimedTextureSize(windows[1][1], windows[1][2],
                                         settings.max_texture_size)

\* C3: the longer dimension of the texture of every shadow view is at most
\* the configured max_texture_size.
C3_LongAxisWithinMaximum ==
    \A g \in Grids : shadow_view[g] # None =>
        /\ ViewSize(g)[1] <= settings.max_texture_size
        /\ ViewSize(g)[2] <= settings.max_texture_size

\* C4: once GridShadowPassNode::run returned, it began exactly one render
\* pass per entity of the node's list, which holds the grids with a prepared
\* shadow view; with no such grid it began none.  It did not panic.
C4_OnePassPerPreparedGrid ==
    "run" \in done =>
        /\ ~crashed
        /\ Len(passes) = Len(node_grids)
        /\ Range(node_grids) = {g \in Grids : shadow_view[g] # None}
        /\ Len(node_grids) = Cardinality(Range(node_grids))

\* C4's case: the node ran on a list of two grids and began two passes.
C4_Witness ==
    /\ "run" \in done
    /\ Len(node_grids) = 2
    /\ Len(passes) = 2

\* C5: the i-th pass is on the i-th grid of the node's list, targets that
\* grid's own shadow texture view, clears it to black, and then draws exactly
\* the items of that grid's phase in the order they were queued, which is the
\* order of the grid's visible-entity list (nothing sorts); a grid with no
\* item still gets its pass, which only clears.
C5_PassesFollowSnapshotAndQueueOrder ==
    "run" \in done =>
        /\ Len(passes) = Len(node_grids)
        /\ \A i \in 1..Len(passes) :
              LET g == node_grids[i]
                  pass == passes[i]
              IN /\ pass.entity = g
                 /\ pass.view = shadow_view[g][1].texture_view
                 /\ pass.load = "Clear(BLACK)"
                 /\ pass.draws = phase[g]
                 /\ [j \in 1..Len(pass.draws) |-> pass.draws[j].entity]
                       = SelectSeq(visible_entities[g],
                                   LAMBDA e : Eligible(e) /\ HasPosition(e))

\* C5's case: the node ran on two grids; one pass drew two items in the order
\* of a descending visible list, and another pass only cleared.
C5_Witness ==
    /\ "run" \in done
    /\ \E i, j \in 1..Len(passes) :
          /\ Len(passes[i].draws) = 2
          /\ passes[i].draws[1].entity > passes[i].draws[2].entity
          /\ passes[j].draws = <<>>
          /\ passes[i].entity # passes[j].entity

\* The inserts of shadow views that prepare_grid_shadow_views queued on g.
ViewInserts(g) ==
    {i \in 1..Len(commands) : commands[i].kind = "view" /\ commands[i].entity = g}

TexturesTaken == {t \in TextureIds : texture_cache[t] # None}

\* What a frame without a primary window shows once prepare_grid_shadow_views
\* ran, and what a frame with one shows once its inserts are applied.
PreparedAsTheWindowSays ==
    /\ (windows = None /\ "prepare_grid_shadow_views" \in done) =>
          /\ TexturesTaken = {}
          /\ \A g \in Grids : /\ ViewInserts(g) = {}
                              /\ shadow_view[g] = None
                              /\ extracted_view[g] = None
    /\ (windows # None /\ "apply_deferred" \in done) =>
          /\ \A g \in Grids : grids[g] # None =>
                 shadow_view[g] # None /\ extracted_view[g] # None
          /\ (\E g \in Grids : grids[g] # None) =>
                 LET size == TextureSize(windows[1][1], windows[1][2],
                                         settings.max_texture_size)
                 IN \A g \in Grids : grids[g] # None => ViewSize(g) = size

\* A step of prepare_grid_shadow_views.
PrepareViewsStep ==
    /\ "prepare_grid_shadow_views" \notin done
    /\ "prepare_grid_shadow_views" \in done'

\* C6: in a frame without a primary window prepare_grid_shadow_views changes
\* nothing (it takes no texture and queues no insert, so no grid gets a shadow
\* view or an extracted view), and nothing of the skip stays: in every frame
\* with a primary window, whatever frames came before, every grid present has
\* its shadow view, sized for this frame's window, once the inserts are applied.
C6_NoWindowIsANoOp ==
    /\ [][(PrepareViewsStep /\ windows = None) =>
              UNCHANGED <<scene, settings, commands, texture_cache, extracted_view,
                          shadow_view, view_offset, bind_group, view_uniforms,
                          shadow_uniforms, meta, phase, pipelines, node_grids,
                          passes, crashed>>]_vars
    /\ []PreparedAsTheWindowSays

\* C6's case: a frame without a primary window, after a frame that had shadow
\* views (the node's list still names them): the grid present got no view.
C6_Witness ==
    /\ windows = None
    /\ "apply_deferred" \in done
    /\ node_grids # <<>>
    /\ \E g \in Grids : grids[g] # None /\ shadow_view[g] = None

\* C7: once queue_grid_shadows ran, every grid's phase holds an item for each
\* eligible visible entity whose pipeline specializes, in the order of the
\* visible list, and none for an entity whose specialization fails: a failure
\* skips that entity only, in that grid and in every other.
C7_FailureSkipsOnlyTheEntity ==
    "queue_grid_shadows" \in done =>
        /\ ~crashed
        /\ \A g \in Grids :
              PhaseEntities(g) =
                  SelectSeq(visible_entities[g],
                            LAMBDA e : Eligible(e) /\ HasPosition(e))

\* C7's case: in one grid an entity whose specialization fails comes before
\* an entity that got its item, and a grid queued after that one got an item
\* too.
C7_Witness ==
    /\ "queue_grid_shadows" \in done
    /\ \E g, h \in Grids :
          /\ g < h
          /\ phase[h] # <<>>
          /\ \E i, j \in 1..Len(visible_entities[g]) :
                /\ i < j
                /\ Eligible(visible_entities[g][i])
                /\ ~HasPosition(visible_entities[g][i])
                /\ Queued(visible_entities[g][j], g)

\* Every item queued holds the id the cache has for its entity's key and layout.
ItemsHoldCachedIds ==
    \A g \in Grids : \A i \in 1..Len(phase[g]) :
        pipelines[KeyOf(phase[g][i].entity)] = Some(phase[g][i].pipeline)

\* C8: a cached pipeline stays: no step removes or replaces an entry of the
\* cache, and every item queued holds the id the cache has for its entity's
\* key and layout, so that equal keys get equal ids within a frame and across
\* frames.
C8_CacheOnlyGrows ==
    [][/\ \A k \in PipelineKeys : pipelines[k] # None => pipelines'[k] = pipelines[k]
       /\ ItemsHoldCachedIds']_vars

\* C8's case: both keys are cached, and one frame queued items of the two
\* keys, one of them for two grids.
C8_Witness ==
    /\ "queue_grid_shadows" \in done
    /\ \A k \in PipelineKeys : "POSITION" \in k.layout => pipelines[k] # None
    /\ \E g, h \in Grids :
          /\ g # h
          /\ Len(phase[g]) = 2
          /\ phase[g][1].pipeline # phase[g][2].pipeline
          /\ \E i \in 1..Len(phase[h]) : phase[h][i] = phase[g][1]

\* C10 as stated: once the inserts of prepare_grid_shadow_views are applied,
\* every grid present has a shadow view.
C10_EveryGridHasItsView ==
    "apply_deferred" \in done =>
        \A g \in Grids : grids[g] # None => shadow_view[g] # None

\* C10, amended: in a frame with a primary window every grid present gets
\* exactly one shadow view and one shadow texture (one insert, at most one
\* texture taken per grid), and in a frame without one no grid gets a view or
\* a texture; a grid that is not present never has either.
C10_OneViewWhenTheWindowIsKnown ==
    /\ \A g \in Grids : Cardinality(ViewInserts(g)) <= 1
    /\ Cardinality(TexturesTaken) <= Cardinality({g \in Grids : grids[g] # None})
    /\ \A g \in Grids : grids[g] = None => shadow_view[g] = None /\ ViewInserts(g) = {}
    /\ "prepare_grid_shadow_views" \in done =>
          \A g \in Grids : grids[g] # None =>
              IF windows = None
              THEN shadow_view[g] = None /\ ViewInserts(g) = {}
              ELSE IF "apply_deferred" \in done
              THEN shadow_view[g] # None /\ ViewInserts(g) = {}
              ELSE shadow_view[g] = None /\ Cardinality(ViewInserts(g)) = 1

\* C10's case: a frame with a primary window in which two grids are present
\* and each has its shadow view.
C10_Witness ==
    /\ windows # None
    /\ "apply_deferred" \in done
    /\ Cardinality({g \in Grids : grids[g] # None /\ shadow_view[g] # None}) = 2

BindGroupSystems ==
    {"prepare_grid_shadow_bind_groups", "prepare_grid_shadow_view_bind_group"}

\* C12 as stated: the stages run in the order Prepare, PrepareBindGroups,
\* Queue, Render, each complete (its deferred inserts applied) before the next
\* begins.
C12_StagesInStatedOrder ==
    /\ BindGroupSystems \cap done # {} => "apply_deferred" \in done
    /\ "queue_grid_shadows" \in done => "flush" \in done
    /\ "update" \in done => "queue_grid_shadows" \in done
    /\ "run" \in done => "update" \in done

\* C12, amended: the shadow-view step of Prepare, with its deferred inserts
\* applied, completes before the PrepareBindGroups systems begin, and Prepare,
\* PrepareBindGroups and Queue all complete, with their deferred inserts
\* applied, before Render begins; Queue is not ordered after the other two.
C12_StagesAsScheduled ==
    /\ "apply_deferred" \in done =>
          /\ "prepare_grid_shadow_views" \in done
          /\ \A g \in Grids : ViewInserts(g) = {}
    /\ BindGroupSystems \cap done # {} => "apply_deferred" \in done
    /\ "flush" \in done => BindGroupSystems \subseteq done
    /\ "update" \in done =>
          /\ {"flush", "queue_grid_shadows"} \subseteq done
          /\ commands = <<>>
    /\ "run" \in done => "update" \in done

\* C12's case: a frame ran all its stages: the pass drew the queued items of
\* a grid whose bind group was built.
C12_Witness ==
    /\ "run" \in done
    /\ \E i \in 1..Len(passes) :
          /\ passes[i].draws # <<>>
          /\ bind_group[passes[i].entity] # None

\* What the unwrap of line 528 needs of an entity of the node's list.
RunFinds(entity) ==
    /\ shadow_view[entity] # None
    /\ grids[entity] # None
    /\ view_offset[entity]

\* C13: no step panics, whatever is missing in a frame: once update ran, run
\* finds the shadow view, the phase and the view-uniform offset of every entity
\* of the node's list, and run begins its passes and returns Ok.
C13_NoStepPanics ==
    /\ ~crashed
    /\ "update" \in done => \A i \in 1..Len(node_grids) : RunFinds(node_grids[i])
    /\ "run" \in done => Len(passes) = Len(node_grids)

\* C13's case: run returned in a frame without a shadow-uniform binding in
\* which one visible entity failed to specialize and another had an unresolved
\* mesh or material, and it drew a grid's pass.
C13_Witness ==
    /\ "run" \in done
    /\ ~shadow_uniforms
    /\ passes # <<>>
    /\ \E g \in Grids : \E e, f \in Range(visible_entities[g]) :
          /\ Eligible(e) /\ ~HasPosition(e)
          /\ IsCaster(f) /\ ~(MeshResolved(f) /\ MaterialResolved(f))

\* The inserts of shadow bind groups that prepare_grid_shadow_bind_groups
\* queued on g.
BindGroupInserts(g) ==
    {i \in 1..Len(commands) : commands[i].kind = "bind_group" /\ commands[i].entity = g}

\* C14: a frame builds the view bind group exactly when the view uniforms
\* have a binding, and the grids' shadow bind groups exactly when the shadow
\* uniforms have one: without the binding nothing of the category is built or
\* queued and nothing fails, and with it, in whatever frame, the view bind
\* group is built and every grid with a shadow view gets its bind group.
C14_NoBindingSkipsCreation ==
    /\ ~crashed
    /\ meta.view_bind_group = Some("this_frame") <=>
          ("prepare_grid_shadow_view_bind_group" \in done /\ view_uniforms)
    /\ \A g \in Grids :
          /\ (BindGroupInserts(g) # {} \/ bind_group[g] # None) => shadow_uniforms
          /\ ("prepare_grid_shadow_bind_groups" \in done /\ shadow_uniforms
                /\ shadow_view[g] # None) =>
                IF "flush" \in done THEN bind_group[g] # None
                ELSE BindGroupInserts(g) # {}

\* C14's case: the shadow uniforms had no binding in a frame whose grid has a
\* shadow view: the grid got no bind group, while the view bind group, whose
\* uniforms had a binding, was built; an earlier frame ran the pass.
C14_Witness ==
    /\ "flush" \in done
    /\ ~shadow_uniforms
    /\ meta.view_bind_group = Some("this_frame")
    /\ node_grids # <<>>
    /\ "update" \notin done
    /\ \E g \in Grids : shadow_view[g] # None /\ bind_group[g] = None

\* C15: once update ran in a frame, the node's list holds exactly the grids
\* that have a shadow view in this frame, each once, whatever the list held
\* before; in a frame without shadow views the list is empty.
C15_SnapshotIsThisFramesViews ==
    "update" \in done =>
        /\ Range(node_grids) = {g \in Grids : shadow_view[g] # None}
        /\ Len(node_grids) = Cardinality(Range(node_grids))

\* C15's case: update ran in a frame in which one grid of two has a shadow
\* view: the list names that grid alone.
C15_Witness ==
    /\ "update" \in done
    /\ Len(node_grids) = 1
    /\ \E g \in Grids : shadow_view[g] = None /\ g \notin Range(node_grids)

\* A step of queue_grid_shadows.
QueueStep ==
    /\ "queue_grid_shadows" \notin done
    /\ "queue_grid_shadows" \in done'

\* C16: within a frame the texture pool changes in a step of
\* prepare_grid_shadow_views only, and the pipeline cache in a step of
\* queue_grid_shadows only: the bind-group systems, update and run leave both
\* as they are.  (The host releases the pool's textures when the frame ends.)
C16_SharedResourcesChangeInTheirStage ==
    [][/\ texture_cache' # texture_cache => (PrepareViewsStep \/ done' = {})
       /\ pipelines' # pipelines => QueueStep]_vars

\* C16's case: a frame took textures from the pool and cached a pipeline, and
\* its bind-group systems and its pass ran after that.
C16_Witness ==
    /\ "run" \in done
    /\ TexturesTaken # {}
    /\ \E k \in PipelineKeys : pipelines[k] # None
    /\ \E i \in 1..Len(passes) : passes[i].draws # <<>>
    /\ meta.view_bind_group = Some("this_frame")

\* Twice a positive f32 (exact: the exponent goes up by one).
F32Twice(x) == [m |-> x.m, e |-> x.e + 1]

\* C17: the area of a grid's shadow view is (-W/2, -H/2, W/2, H/2) of the
\* grid's footprint, exactly: left and bottom are negative, right and top
\* positive, twice the magnitude of left and right is W and twice that of
\* bottom and top is H, whatever the footprint's centre and the window; width
\* 100 and height 50 give (-50, -25, 50, 25).
C17_AreaIsHalfTheFootprint ==
    \A g \in Grids : extracted_view[g] # None =>
        LET area == extracted_view[g][1].area
            W == grids[g][1].width
            H == grids[g][1].height
        IN /\ area[1].neg /\ area[2].neg /\ ~area[3].neg /\ ~area[4].neg
           /\ area[1].abs = area[3].abs /\ F32Twice(area[3].abs) = U32ToF32(W)
           /\ area[2].abs = area[4].abs /\ F32Twice(area[4].abs) = U32ToF32(H)
           /\ (W = 100 /\ H = 50) =>
                 /\ area[3].abs = U32ToF32(50)
                 /\ area[4].abs = U32ToF32(25)

\* C17's case: one frame built the area of a footprint 100 wide and 50 high
\* and that of a footprint of odd width at another centre.
C17_Witness ==
    \E g, h \in Grids :
        /\ extracted_view[g] # None /\ extracted_view[h] # None
        /\ grids[g][1].width = 100 /\ grids[g][1].height = 50
        /\ grids[h][1].width = 3 /\ grids[h][1].center # grids[g][1].center

\* C18: whenever the node's list holds a grid with a queued item, so that run
\* executes SetGridShadowViewBindGroup, the view bind group of GridShadowMeta
\* is present, and it is the one built in this frame; the unwrap of line 275
\* never panics, in the first frame and in frames without a view binding.
C18_ViewBindGroupPresentWhenDrawn ==
    /\ ~crashed
    /\ ("update" \in done /\ \E i \in 1..Len(node_grids) : phase[node_grids[i]] # <<>>)
          => meta.view_bind_group = Some("this_frame")
    /\ \A i \in 1..Len(passes) :
          passes[i].draws # <<>> => meta.view_bind_group # None

\* C18's case: run executed an item in a frame whose shadow uniforms had no
\* binding, and no pipeline but this frame's is cached.
C18_Witness ==
    /\ "run" \in done
    /\ ~shadow_uniforms
    /\ \E i \in 1..Len(passes) : passes[i].draws # <<>>
    /\ Cardinality({k \in PipelineKeys : pipelines[k] # None}) = 1

\* C19: a shadow view is usable in the frame that built it: in a frame with a
\* primary window every grid present has its shadow view once the chained
\* apply_deferred ran; a grid with a shadow view has a view-uniform offset
\* once the view uniforms are prepared, has (when the shadow uniforms have a
\* binding) a bind group around the texture view of its shadow view once the
\* bind groups are inserted, and is in the node's list once update ran.
C19_ViewUsableInItsFrame ==
    \A g \in Grids :
        /\ ("apply_deferred" \in done /\ windows # None /\ grids[g] # None)
              => shadow_view[g] # None
        /\ shadow_view[g] # None =>
              /\ "prepare_view_uniforms" \in done => view_offset[g]
              /\ ("flush" \in done /\ shadow_uniforms) =>
                    /\ bind_group[g] # None
                    /\ bind_group[g][1].texture_view = shadow_view[g][1].texture_view
              /\ "update" \in done => g \in Range(node_grids)

\* C19's case: in one frame a grid got its shadow view, its view-uniform
\* offset and its bind group, and update listed it; the pass has not run yet.
C19_Witness ==
    /\ "update" \in done
    /\ "run" \notin done
    /\ \E g \in Grids :
          /\ shadow_view[g] # None
          /\ view_offset[g]
          /\ bind_group[g] # None
          /\ g \in Range(node_grids)

\* C20: a draw item is executed only for a grid with a prepared shadow view:
\* every pass that ran is on a grid that has its shadow view and drew that
\* grid's items, and once the node ran, a grid without a shadow view has no
\* pass, whatever was queued in its phase; the node does not panic on it.
C20_ItemsRunOnlyWithView ==
    /\ ~crashed
    /\ \A i \in 1..Len(passes) :
          /\ shadow_view[passes[i].entity] # None
          /\ passes[i].view = shadow_view[passes[i].entity][1].texture_view
          /\ passes[i].draws = phase[passes[i].entity]
    /\ "run" \in done =>
          \A g \in Grids :
              shadow_view[g] = None => \A i \in 1..Len(passes) : passes[i].entity # g

\* C20's case: the node ran in a frame in which a grid without a shadow view
\* had items queued, and none of them was executed.
C20_Witness ==
    /\ "run" \in done
    /\ \E g \in Grids :
          /\ shadow_view[g] = None
          /\ phase[g] # <<>>
          /\ \A i \in 1..Len(passes) : passes[i].entity # g

\* A step of prepare_grid_shadow_view_bind_group.
ViewBindGroupStep ==
    /\ "prepare_grid_shadow_view_bind_group" \notin done
    /\ "prepare_grid_shadow_view_bind_group" \in done'

\* C21: prepare_grid_shadow_view_bind_group never clears the shared view bind
\* group: its step in a frame where the view uniforms have no binding leaves
\* GridShadowMeta as it is, no step of any system takes a present bind group
\* away, and after its step in a frame without a binding a present bind group
\* is the one built for an earlier frame's buffer.
C21_ViewBindGroupNeverCleared ==
    /\ [][/\ (ViewBindGroupStep /\ ~view_uniforms) => UNCHANGED meta
          /\ meta.view_bind_group # None => meta'.view_bind_group # None]_vars
    /\ []( ("prepare_grid_shadow_view_bind_group" \in done /\ ~view_uniforms
               /\ meta.view_bind_group # None)
             => meta.view_bind_group = Some("earlier_frame") )

\* C21's case: the system ran in a frame where the view uniforms have no
\* binding, after a frame that built the bind group, and the bind group of
\* that earlier frame is still there.
C21_Witness ==
    /\ "prepare_grid_shadow_view_bind_group" \in done
    /\ ~view_uniforms
    /\ meta.view_bind_group = Some("earlier_frame")

\* C22: within one frame every grid with a shadow view has a texture of the
\* same dimensions, those computed from the primary window and
\* max_texture_size whatever the grid's footprint, and the viewport of each
\* grid's view is (0, 0, width, height) of the texture taken for that grid.
C22_OneSizeForAllGrids ==
    windows # None =>
        LET size == TextureSize(windows[1][1], windows[1][2],
                                settings.max_texture_size)
        IN \A g \in Grids : shadow_view[g] # None =>
              /\ ViewSize(g) = size
              /\ \A h \in Grids : shadow_view[h] # None => ViewSize(h) = ViewSize(g)
              /\ extracted_view[g] # None
              /\ extracted_view[g][1].viewport
                    = <<0, 0, shadow_view[g][1].texture_view.width,
                        shadow_view[g][1].texture_view.height>>

\* C22's case: one frame with a portrait window gave views to two grids of
\* different footprints, in textures that are not square.
C22_Witness ==
    /\ windows # None
    /\ windows[1][1] < windows[1][2]
    /\ \E g, h \in Grids :
          /\ shadow_view[g] # None /\ shadow_view[h] # None
          /\ grids[g][1].width # grids[h][1].width
          /\ grids[g][1].height # grids[h][1].height
          /\ ViewSize(g)[1] < ViewSize(g)[2]

====
